---- MODULE Spec2Model ----
(***************************************************************************)
(* Model of the PDF abbreviation extractor (src/index.ts).                 *)
(*                                                                         *)
(* A string is a sequence of UTF-16 code units; a code unit is written as  *)
(* a one-character TLA+ string, and a non-ASCII code unit by its code      *)
(* point ("U+0130" is LATIN CAPITAL LETTER I WITH DOT ABOVE, "U+2013" the   *)
(* en-dash).  Indices into strings are 0-based, as in JavaScript.          *)
(***************************************************************************)
EXTENDS Integers, Sequences, FiniteSets, TLC

VARIABLES
  \* ---- extractAbbreviationSection / parseAbbreviations (pure functions)
  text,               \* argument of extractAbbreviationSection
  startIndex,         \* local of extractAbbreviationSection
  endIndex,           \* local of extractAbbreviationSection
  headerFound,        \* local of extractAbbreviationSection
  sectionContent,     \* local of extractAbbreviationSection / argument of parseAbbreviations
  abbreviations,      \* value returned by the function
  \* ---- the program (module top level, extractAbbreviationsFromPDFs)
  pc,                 \* position of the program
  dirExists,          \* file system: does ./pdfs exist
  dirEntries,         \* file system: the entries of ./pdfs, in listing order
  outputWritable,     \* file system: can ./abbreviations.md be written
  outputFile,         \* file system: what was written to ./abbreviations.md
  files,              \* local: the filtered directory listing
  fileIdx,            \* local: index of the for-of loop over files
  processedDocuments, \* local: the documents collected so far
  keepSeparate,       \* local constant of generateOutput
  allAbbreviations,   \* local of generateOutput (unified branch)
  console,            \* the messages written by console.log / console.error
  fsCalls,            \* the calls made to the file system, in order
  promise             \* state of the promise returned by extractAbbreviationsFromPDFs

vars == <<text, startIndex, endIndex, headerFound, sectionContent, abbreviations,
          pc, dirExists, dirEntries, outputWritable, outputFile, files, fileIdx,
          processedDocuments, keepSeparate, allAbbreviations, console, fsCalls,
          promise>>

fnVars == <<text, startIndex, endIndex, headerFound, sectionContent, abbreviations>>

progVars == <<dirExists, dirEntries, outputWritable, outputFile, files, fileIdx,
              processedDocuments, keepSeparate, allAbbreviations, console, fsCalls,
              promise>>

-----------------------------------------------------------------------------
(* Bounds of the model *)

MaxTokens == 3   \* tokens concatenated into a document text
MaxPieces == 5   \* pieces concatenated into a section line
MaxFiles  == 2   \* entries of the input directory
MaxDocs   == 2   \* documents handed to generateOutput
MaxAbbr   == 2   \* abbreviations per document handed to generateOutput

-----------------------------------------------------------------------------
(* JavaScript string primitives *)

UpperLetters ==
  <<"A","B","C","D","E","F","G","H","I","J","K","L","M",
    "N","O","P","Q","R","S","T","U","V","W","X","Y","Z">>

LowerLetters ==
  <<"a","b","c","d","e","f","g","h","i","j","k","l","m",
    "n","o","p","q","r","s","t","u","v","w","x","y","z">>

Digits == {"0","1","2","3","4","5","6","7","8","9"}

Range(s) == {s[i] : i \in DOMAIN s}

\* String.prototype.toLowerCase on one code unit.  U+0130 is the one code
\* unit whose lower case is two code units (U+0069 U+0307).
LowerChar(c) ==
  IF c \in Range(UpperLetters)
    THEN <<LowerLetters[CHOOSE i \in DOMAIN UpperLetters : UpperLetters[i] = c]>>
    ELSE IF c = "U+0130" THEN <<"i", "U+0307">>
    ELSE <<c>>

RECURSIVE toLowerCase(_)
toLowerCase(s) ==
  IF s = <<>> THEN <<>> ELSE LowerChar(Head(s)) \o toLowerCase(Tail(s))

\* String.prototype.indexOf: 0-based index of the first occurrence, or -1
OccursAt(s, pat, i) ==
  /\ i + Len(pat) <= Len(s)
  /\ \A k \in 1..Len(pat) : s[i + k] = pat[k]

indexOf(s, pat) ==
  LET hits == {i \in 0..Len(s) : OccursAt(s, pat, i)}
  IN  IF hits = {} THEN -1
      ELSE CHOOSE i \in hits : \A j \in hits : i <= j

\* String.prototype.slice(from, to) for non-negative arguments
slice(s, from, to) ==
  LET f == IF from > Len(s) THEN Len(s) ELSE from
      t == IF to > Len(s) THEN Len(s) ELSE to
  IN  IF f >= t THEN <<>> ELSE SubSeq(s, f + 1, t)

\* White space of \s and of String.prototype.trim
WhiteSpace == {" ", "\t", "\n", "\r"}

RECURSIVE trimStart(_)
trimStart(s) ==
  IF s # <<>> /\ Head(s) \in WhiteSpace THEN trimStart(Tail(s)) ELSE s

RECURSIVE trimEnd(_)
trimEnd(s) ==
  IF s # <<>> /\ s[Len(s)] \in WhiteSpace
    THEN trimEnd(SubSeq(s, 1, Len(s) - 1)) ELSE s

trim(s) == trimEnd(trimStart(s))

\* String.prototype.split("\n"): the sequence of lines
RECURSIVE split(_)
split(s) ==
  LET nl == indexOf(s, <<"\n">>)
  IN  IF nl = -1 THEN <<s>>
      ELSE <<slice(s, 0, nl)>> \o split(slice(s, nl + 1, Len(s)))

RECURSIVE Concat(_)
Concat(ss) == IF ss = <<>> THEN <<>> ELSE Head(ss) \o Concat(Tail(ss))

Min(S) == CHOOSE m \in S : \A n \in S : m <= n

-----------------------------------------------------------------------------
(* extractAbbreviationSection: locating the section *)

sectionHeaders ==
  << <<"l","i","s","t"," ","o","f"," ","a","b","b","r","e","v","i","a","t","i","o","n","s">>,
     <<"a","b","b","r","e","v","i","a","t","i","o","n","s">>,
     <<"a","c","r","o","n","y","m","s">>,
     <<"g","l","o","s","s","a","r","y"," ","o","f"," ","t","e","r","m","s">>,
     <<"l","i","s","t"," ","o","f"," ","a","c","r","o","n","y","m","s">>,
     <<"s","y","m","b","o","l","s"," ","a","n","d"," ","a","b","b","r","e","v","i","a","t","i","o","n","s">> >>

commonNextSections ==
  << <<"t","a","b","l","e"," ","o","f"," ","c","o","n","t","e","n","t","s">>,
     <<"i","n","t","r","o","d","u","c","t","i","o","n">>,
     <<"c","h","a","p","t","e","r"," ","1">>,
     <<"a","b","s","t","r","a","c","t">>,
     <<"a","c","k","n","o","w","l","e","d","g","m","e","n","t","s">>,
     <<"r","e","f","e","r","e","n","c","e","s">> >>

\* A plausible slip: the first header of the list that occurs wins
HeaderWinsByListOrder(headerIndex, start) ==
  headerIndex # -1 /\ start = -1

\* The condition of the header loop
HeaderWins(headerIndex, start) ==
  headerIndex # -1 /\ (start = -1 \/ headerIndex < start)

\* The header loop, from the k-th header on; st = [startIndex, headerFound]
RECURSIVE HeaderLoop(_, _, _)
HeaderLoop(t, k, st) ==
  IF k > Len(sectionHeaders) THEN st
  ELSE LET header      == sectionHeaders[k]
           headerIndex == indexOf(toLowerCase(t), header)
       IN  IF HeaderWins(headerIndex, st.startIndex)
             THEN HeaderLoop(t, k + 1, [startIndex |-> headerIndex, headerFound |-> header])
             ELSE HeaderLoop(t, k + 1, st)

\* A plausible slip: every marker found moves the end
EndMovesAlways(adjustedIndex, end) == TRUE

\* The condition under which a found marker moves the end
EndMoves(adjustedIndex, end) == adjustedIndex < end

\* The next-section loop, from the k-th marker on
RECURSIVE NextSectionLoop(_, _, _, _, _)
NextSectionLoop(t, start, header, k, end) ==
  IF k > Len(commonNextSections) THEN end
  ELSE LET nextSection      == commonNextSections[k]
           nextSectionText  == slice(t, start + Len(header), Len(t))
           nextSectionIndex == indexOf(toLowerCase(nextSectionText), nextSection)
           adjustedIndex    == start + Len(header) + nextSectionIndex
       IN  IF nextSectionIndex # -1 /\ EndMoves(adjustedIndex, end)
             THEN NextSectionLoop(t, start, header, k + 1, adjustedIndex)
             ELSE NextSectionLoop(t, start, header, k + 1, end)

\* The locals of extractAbbreviationSection when it returns
LocateSection(t) ==
  LET st  == HeaderLoop(t, 1, [startIndex |-> -1, headerFound |-> <<>>])
      end == IF st.startIndex = -1 THEN Len(t)
             ELSE NextSectionLoop(t, st.startIndex, st.headerFound, 1, Len(t))
  IN  [startIndex     |-> st.startIndex,
       headerFound    |-> st.headerFound,
       endIndex       |-> end,
       sectionContent |-> IF st.startIndex = -1 THEN <<>>
                          ELSE trim(slice(t, st.startIndex, end))]

-----------------------------------------------------------------------------
(* parseAbbreviations: the three regular expressions *)

\* [A-Z0-9\-\.]
IsTermChar(c) == c \in Range(UpperLetters) \cup Digits \cup {"-", "."}

\* The separator class as the source file spells it: a hyphen, the three
\* code units U+00E2 U+20AC U+201C, and a colon
IsSeparator(c) == c \in {"-", "U+00E2", "U+20AC", "U+201C", ":"}

\* . (any code unit but a line terminator)
IsDot(c) == c \notin {"\n", "\r", "U+2028", "U+2029"}

\* \w
IsWordChar(c) == c \in Range(UpperLetters) \cup Range(LowerLetters) \cup Digits \cup {"_"}

\* [\w\s\-\.,;()]
IsLooseChar(c) == IsWordChar(c) \/ c \in WhiteSpace \/ c \in {"-", ".", ",", ";", "(", ")"}

\* Length of the longest run of term characters that starts the line
RECURSIVE TermRun(_)
TermRun(l) == IF l # <<>> /\ IsTermChar(Head(l)) THEN 1 + TermRun(Tail(l)) ELSE 0

\* Length of the longest run of white space after the first a code units
RECURSIVE WsRun(_, _)
WsRun(l, a) == IF a < Len(l) /\ l[a + 1] \in WhiteSpace THEN 1 + WsRun(l, a + 1) ELSE 0

\* Number of white space code units of the line: no run is longer
WsCount(l) == Cardinality({p \in DOMAIN l : l[p] \in WhiteSpace})

\* The greedy quantifiers try longer matches first: the match the engine
\* returns is the candidate that is largest in lexicographic order
Greedy(cands) ==
  CHOOSE c \in cands : \A d \in cands :
    \/ c[1] > d[1]
    \/ c[1] = d[1] /\ c[2] > d[2]
    \/ c[1] = d[1] /\ c[2] = d[2] /\ c[3] >= d[3]

NoMatch == [matched |-> FALSE, term |-> <<>>, definition |-> <<>>]

\* /^([A-Z0-9\-\.]+)\s*[\-...:]\s*(.+)$/
\* a candidate <<i, j, k>>: i term characters, j white space, the separator,
\* k white space, and the rest of the line as group 2
MatchSeparator(l) ==
  LET cands == {c \in (1..TermRun(l)) \X (0..WsCount(l)) \X (0..WsCount(l)) :
                  /\ c[2] <= WsRun(l, c[1])
                  /\ c[1] + c[2] < Len(l)
                  /\ IsSeparator(l[c[1] + c[2] + 1])
                  /\ c[3] <= WsRun(l, c[1] + c[2] + 1)
                  /\ c[1] + c[2] + 1 + c[3] < Len(l)
                  /\ \A p \in (c[1] + c[2] + c[3] + 2)..Len(l) : IsDot(l[p])}
  IN  IF cands = {} THEN NoMatch
      ELSE LET c == Greedy(cands)
           IN  [matched    |-> TRUE,
                term       |-> SubSeq(l, 1, c[1]),
                definition |-> SubSeq(l, c[1] + c[2] + c[3] + 2, Len(l))]

\* /^([A-Z0-9\-\.]+)\s{2,}(.+)$/
MatchWideGap(l) ==
  LET cands == {c \in (1..TermRun(l)) \X (2..WsCount(l)) \X {0} :
                  /\ c[2] <= WsRun(l, c[1])
                  /\ c[1] + c[2] < Len(l)
                  /\ \A p \in (c[1] + c[2] + 1)..Len(l) : IsDot(l[p])}
  IN  IF cands = {} THEN NoMatch
      ELSE LET c == Greedy(cands)
           IN  [matched    |-> TRUE,
                term       |-> SubSeq(l, 1, c[1]),
                definition |-> SubSeq(l, c[1] + c[2] + 1, Len(l))]

\* /^([A-Z0-9\-\.]{2,})\s+([\w\s\-\.,;()]+)$/
MatchLoose(l) ==
  LET cands == {c \in (2..TermRun(l)) \X (1..WsCount(l)) \X {0} :
                  /\ c[2] <= WsRun(l, c[1])
                  /\ c[1] + c[2] < Len(l)
                  /\ \A p \in (c[1] + c[2] + 1)..Len(l) : IsLooseChar(l[p])}
  IN  IF cands = {} THEN NoMatch
      ELSE LET c == Greedy(cands)
           IN  [matched    |-> TRUE,
                term       |-> SubSeq(l, 1, c[1]),
                definition |-> SubSeq(l, c[1] + c[2] + 1, Len(l))]

\* The match of one trimmed line: the first pattern that matches
MatchLine(trimmedLine) ==
  LET m1 == MatchSeparator(trimmedLine)
      m2 == MatchWideGap(trimmedLine)
      m3 == MatchLoose(trimmedLine)
  IN  IF m1.matched THEN m1 ELSE IF m2.matched THEN m2 ELSE m3

\* A plausible slip: the header line is kept
KeepHeaderLine(ls) == ls

\* content.split("\n").slice(1)
SkipHeaderLine(ls) == Tail(ls)

\* The loop over the lines
RECURSIVE ParseLines(_)
ParseLines(ls) ==
  IF ls = <<>> THEN <<>>
  ELSE LET trimmedLine == trim(Head(ls))
           match       == MatchLine(trimmedLine)
       IN  IF trimmedLine = <<>> THEN ParseLines(Tail(ls))
           ELSE IF match.matched /\ match.term # <<>> /\ match.definition # <<>>
             THEN <<[term |-> trim(match.term), definition |-> trim(match.definition)]>>
                    \o ParseLines(Tail(ls))
             ELSE ParseLines(Tail(ls))

parseAbbreviations(content) == ParseLines(SkipHeaderLine(split(content)))

extractAbbreviationSection(t) ==
  LET loc == LocateSection(t)
  IN  IF loc.startIndex = -1 THEN <<>> ELSE parseAbbreviations(loc.sectionContent)

-----------------------------------------------------------------------------
(* The inputs of the two pure functions *)

\* Nine code units U+0130: longer than the shortest header is
DottedRun == [i \in 1..9 |-> "U+0130"]

\* Building blocks of document texts: headers in several spellings, a prefix
\* that turns a header into a longer one, next-section markers, an entry
\* line, and code units whose lower case is longer than they are
LocateTokens ==
  { <<"a","c","r","o","n","y","m","s">>,
    <<"A","b","b","r","e","v","i","a","t","i","o","n","s">>,
    <<"l","i","s","t"," ","o","f"," ">>,
    <<"R","e","f","e","r","e","n","c","e","s">>,
    <<"a","b","s","t","r","a","c","t">>,
    <<"\n","A",":","x","\n">>,
    DottedRun }

\* Building blocks of section lines
LinePieces ==
  { <<"A">>, <<"-">>, <<":">>, <<"U+2013">>, <<" ">>, <<" ", " ">>, <<"x">> }

\* First lines of a section: one that reads as an entry, one that does not
FirstLines == { <<"A",":","x">>, <<"a","c","r","o","n","y","m","s">> }

\* The program's variables, at rest while a pure function is checked
ProgramIdle ==
  /\ dirExists = TRUE
  /\ dirEntries = <<>>
  /\ outputWritable = TRUE
  /\ outputFile = <<>>
  /\ files = <<>>
  /\ fileIdx = 1
  /\ processedDocuments = <<>>
  /\ keepSeparate = TRUE
  /\ allAbbreviations = <<>>
  /\ console = <<>>
  /\ fsCalls = <<>>
  /\ promise = "none"

InitLocate ==
  /\ \E n \in 0..MaxTokens : \E ts \in [1..n -> LocateTokens] : text = Concat(ts)
  /\ startIndex = -1
  /\ endIndex = Len(text)
  /\ headerFound = <<>>
  /\ sectionContent = <<>>
  /\ abbreviations = <<>>
  /\ pc = "call"
  /\ ProgramIdle

\* One call of extractAbbreviationSection(text)
ExtractAbbreviationSection ==
  /\ pc = "call"
  /\ LET loc == LocateSection(text)
     IN  /\ startIndex' = loc.startIndex
         /\ endIndex' = loc.endIndex
         /\ headerFound' = loc.headerFound
         /\ sectionContent' = loc.sectionContent
  /\ abbreviations' = extractAbbreviationSection(text)
  /\ pc' = "returned"
  /\ UNCHANGED <<text, progVars>>

NextLocate == ExtractAbbreviationSection

SpecLocate == InitLocate /\ [][NextLocate]_vars

InitParse ==
  /\ text = <<>>
  /\ startIndex = -1
  /\ endIndex = 0
  /\ headerFound = <<>>
  /\ \E f \in FirstLines : \E n \in 0..MaxPieces : \E ps \in [1..n -> LinePieces] :
       sectionContent \in {f, f \o <<"\n">> \o Concat(ps)}
  /\ abbreviations = <<>>
  /\ pc = "call"
  /\ ProgramIdle

\* One call of parseAbbreviations(sectionContent)
ParseAbbreviations ==
  /\ pc = "call"
  /\ abbreviations' = parseAbbreviations(sectionContent)
  /\ pc' = "returned"
  /\ UNCHANGED <<text, startIndex, endIndex, headerFound, sectionContent, progVars>>

NextParse == ParseAbbreviations

SpecParse == InitParse /\ [][NextParse]_vars

-----------------------------------------------------------------------------
(* Claims about extractAbbreviationSection *)

\* The headers that occur in the lower-cased text
HeadersOccurring(t) ==
  {k \in DOMAIN sectionHeaders : indexOf(toLowerCase(t), sectionHeaders[k]) # -1}

AfterHeader == slice(text, startIndex + Len(headerFound), Len(text))

MarkersFound ==
  {k \in DOMAIN commonNextSections :
     indexOf(toLowerCase(AfterHeader), commonNextSections[k]) # -1}

MarkerPosition(k) ==
  startIndex + Len(headerFound) + indexOf(toLowerCase(AfterHeader), commonNextSections[k])

C3_StartBeforeEnd ==
  (pc = "returned" /\ startIndex # -1) =>
    /\ startIndex <= endIndex
    /\ startIndex + Len(headerFound) <= endIndex
    /\ endIndex <= Len(text)
    /\ (MarkersFound = {} => endIndex = Len(text))

-----------------------------------------------------------------------------
(* Claims about parseAbbreviations *)

IsPrefix(a, b) == Len(a) <= Len(b) /\ SubSeq(b, 1, Len(a)) = a

IsSuffix(a, b) == Len(a) <= Len(b) /\ SubSeq(b, Len(b) - Len(a) + 1, Len(b)) = a

\* The section text with its first line emptied
FirstLineBlanked(content) ==
  LET nl == indexOf(content, <<"\n">>)
  IN  IF nl = -1 THEN <<>> ELSE slice(content, nl, Len(content))

\* C4: no record is produced from the first line of the section text,
\* whatever it contains: there are no more records than lines after the
\* first newline, every record is a term that starts and a definition that
\* ends one of those lines, and the records are those of the same text with
\* its first line emptied.
C4_HeaderLineSkipped ==
  pc = "returned" =>
    LET ls == split(sectionContent)
    IN  /\ Len(abbreviations) <= Len(ls) - 1
        /\ \A i \in DOMAIN abbreviations : \E k \in 2..Len(ls) :
             /\ IsPrefix(abbreviations[i].term, trim(ls[k]))
             /\ IsSuffix(abbreviations[i].definition, trim(ls[k]))
        /\ abbreviations = parseAbbreviations(FirstLineBlanked(sectionContent))

\* The first line reads as an entry, and only the line after it is emitted
C4_Witness ==
  /\ pc = "returned"
  /\ MatchLine(trim(split(sectionContent)[1])).matched
  /\ Len(split(sectionContent)) = 2
  /\ Len(abbreviations) = 1
  /\ abbreviations[1].definition # trim(split(sectionContent)[1])

\* The trimmed lines after the first one
DataLines(content) ==
  LET ls == split(content) IN {trim(ls[k]) : k \in 2..Len(ls)}

\* The separators of the dash/colon strategy: hyphen, en-dash, colon
ClaimedSeparators == {"-", "U+2013", ":"}

\* The line is T, optional white space, one separator, optional white
\* space, D: T the leading run of term characters, D the non-empty rest
IsSeparatorForm(l) ==
  LET t == TermRun(l)
      a == t + WsRun(l, t)
  IN  /\ t >= 1
      /\ a < Len(l)
      /\ l[a + 1] \in ClaimedSeparators
      /\ a + 1 + WsRun(l, a + 1) < Len(l)

SeparatorFormRecord(l) ==
  LET t == TermRun(l)
      a == t + WsRun(l, t)
      b == a + 1 + WsRun(l, a + 1)
  IN  [term |-> SubSeq(l, 1, t), definition |-> SubSeq(l, b + 1, Len(l))]

\* C5: every line after the first that is T, optional white space, a
\* hyphen, an en-dash or a colon, optional white space, D is emitted as the
\* record {term: T, definition: D}.
C5_SeparatorStrategy ==
  pc = "returned" =>
    \A l \in DataLines(sectionContent) :
      IsSeparatorForm(l) =>
        \E i \in DOMAIN abbreviations : abbreviations[i] = SeparatorFormRecord(l)

\* The line is T, two or more white space, D: T the leading run of term
\* characters, D the rest, which starts with no separator
IsWideGapForm(l) ==
  LET t == TermRun(l)
      g == WsRun(l, t)
  IN  /\ t >= 1
      /\ g >= 2
      /\ t + g < Len(l)
      /\ l[t + g + 1] \notin ClaimedSeparators

WideGapFormRecord(l) ==
  LET t == TermRun(l)
      g == WsRun(l, t)
  IN  [term |-> SubSeq(l, 1, t), definition |-> SubSeq(l, t + g + 1, Len(l))]

\* C6: every line after the first that is T, two or more white space, D
\* is emitted as {term: T, definition: D}, T being the whole token before
\* the gap, also when T contains a hyphen.
C6_WideGapStrategy ==
  pc = "returned" =>
    \A l \in DataLines(sectionContent) :
      IsWideGapForm(l) =>
        \E i \in DOMAIN abbreviations : abbreviations[i] = WideGapFormRecord(l)

-----------------------------------------------------------------------------
(* generateOutput *)

\* Rank of a term character in the collation order of localeCompare:
\* punctuation, then digits, then letters
CollationOrder ==
  <<"-", ".", "0","1","2","3","4","5","6","7","8","9">> \o UpperLetters

CharRank(c) == CHOOSE i \in DOMAIN CollationOrder : CollationOrder[i] = c

\* a.localeCompare(b) for two terms: negative, zero or positive
RECURSIVE localeCompare(_, _)
localeCompare(a, b) ==
  IF a = <<>> /\ b = <<>> THEN 0
  ELSE IF a = <<>> THEN -1
  ELSE IF b = <<>> THEN 1
  ELSE IF CharRank(Head(a)) < CharRank(Head(b)) THEN -1
  ELSE IF CharRank(Head(a)) > CharRank(Head(b)) THEN 1
  ELSE localeCompare(Tail(a), Tail(b))

\* Array.prototype.sort((a, b) => a.term.localeCompare(b.term)), a stable sort
RECURSIVE InsertByTerm(_, _)
InsertByTerm(sorted, x) ==
  IF sorted = <<>> THEN <<x>>
  ELSE IF localeCompare(x.term, Head(sorted).term) < 0 THEN <<x>> \o sorted
  ELSE <<Head(sorted)>> \o InsertByTerm(Tail(sorted), x)

RECURSIVE SortByTerm(_)
SortByTerm(list) ==
  IF list = <<>> THEN <<>>
  ELSE InsertByTerm(SortByTerm(SubSeq(list, 1, Len(list) - 1)), list[Len(list)])

\* A plausible slip: the definition met last replaces the one recorded
MergeExistingLastWins(existing, abbr, filename) ==
  [existing EXCEPT
     !.definition = abbr.definition,
     !.sources = IF filename \in Range(@) THEN @ ELSE Append(@, filename)]

\* The branch taken when the term is already in allAbbreviations
MergeExisting(existing, abbr, filename) ==
  [existing EXCEPT
     !.sources = IF filename \in Range(@) THEN @ ELSE Append(@, filename)]

\* The inner loop: the abbreviations of one document
RECURSIVE MergeAbbreviations(_, _, _)
MergeAbbreviations(all, filename, abbrs) ==
  IF abbrs = <<>> THEN all
  ELSE LET abbr  == Head(abbrs)
           found == {i \in DOMAIN all : all[i].term = abbr.term}
       IN  IF found # {}
             THEN LET i == Min(found)
                  IN  MergeAbbreviations(
                        [all EXCEPT ![i] = MergeExisting(all[i], abbr, filename)],
                        filename, Tail(abbrs))
             ELSE MergeAbbreviations(
                    Append(all, [term       |-> abbr.term,
                                 definition |-> abbr.definition,
                                 sources    |-> <<filename>>]),
                    filename, Tail(abbrs))

\* The outer loop: the documents
RECURSIVE MergeDocuments(_, _)
MergeDocuments(all, documents) ==
  IF documents = <<>> THEN all
  ELSE MergeDocuments(
         MergeAbbreviations(all, Head(documents).filename, Head(documents).abbreviations),
         Tail(documents))

\* allAbbreviations after the sort
UnifiedList(documents) == SortByTerm(MergeDocuments(<<>>, documents))

\* The lines of the grouped output of one document
DocumentLines(doc) ==
  IF doc.abbreviations = <<>> THEN <<>>
  ELSE <<[line |-> "## From:", filename |-> doc.filename]>>
       \o [i \in DOMAIN doc.abbreviations |->
             [line |-> "- term: definition",
              term |-> doc.abbreviations[i].term,
              definition |-> doc.abbreviations[i].definition]]
       \o <<[line |-> ""]>>

RECURSIVE GroupedLines(_)
GroupedLines(documents) ==
  IF documents = <<>> THEN <<>>
  ELSE DocumentLines(Head(documents)) \o GroupedLines(Tail(documents))

UnifiedLines(all) ==
  <<[line |-> "## Unified Abbreviation List"]>>
  \o [i \in DOMAIN all |->
        [line |-> "- term: definition (Source: sources)",
         term |-> all[i].term,
         definition |-> all[i].definition,
         sources |-> all[i].sources]]

\* The text handed to writeFileSync, line by line
OutputLines(documents, separate) ==
  <<[line |-> "# Compiled Abbreviations"]>>
  \o (IF separate THEN GroupedLines(documents)
      ELSE UnifiedLines(UnifiedList(documents)))

-----------------------------------------------------------------------------
(* generateOutput as a function of the documents, in unified mode *)

\* Abbreviations to merge: one term with two definitions, and another term
AbbreviationRecords ==
  { [term |-> <<"A">>, definition |-> <<"x">>],
    [term |-> <<"A">>, definition |-> <<"y">>],
    [term |-> <<"B">>, definition |-> <<"x">>] }

AbbreviationLists ==
  UNION {[1..n -> AbbreviationRecords] : n \in 1..MaxAbbr}

\* The name of the i-th entry of the input directory
FileName(i, ext) == [base |-> i, ext |-> ext]

PdfExt == <<".", "p", "d", "f">>

\* Documents as the batch loop collects them: distinct file names in
\* listing order, each with at least one abbreviation
DocumentList(as) ==
  [i \in DOMAIN as |-> [filename |-> FileName(i, PdfExt), abbreviations |-> as[i]]]

InitUnified ==
  /\ text = <<>>
  /\ startIndex = -1
  /\ endIndex = 0
  /\ headerFound = <<>>
  /\ sectionContent = <<>>
  /\ abbreviations = <<>>
  /\ pc = "call"
  /\ dirExists = TRUE
  /\ dirEntries = <<>>
  /\ outputWritable = TRUE
  /\ outputFile = <<>>
  /\ files = <<>>
  /\ fileIdx = 1
  /\ \E n \in 0..MaxDocs : \E as \in [1..n -> AbbreviationLists] :
       processedDocuments = DocumentList(as)
  /\ keepSeparate = FALSE
  /\ allAbbreviations = <<>>
  /\ console = <<>>
  /\ fsCalls = <<>>
  /\ promise = "none"

\* The effect of generateOutput(documents, outputFile) that both callers share
GenerateOutputEffect ==
  /\ allAbbreviations' = IF keepSeparate THEN <<>> ELSE UnifiedList(processedDocuments)
  /\ fsCalls' = Append(fsCalls, "writeFileSync")
  /\ outputFile' = IF outputWritable THEN OutputLines(processedDocuments, keepSeparate)
                   ELSE outputFile

\* One call of generateOutput(processedDocuments, outputFile)
CallGenerateOutput ==
  /\ pc = "call"
  /\ GenerateOutputEffect
  /\ pc' = IF outputWritable THEN "returned" ELSE "thrown"
  /\ UNCHANGED <<fnVars, dirExists, dirEntries, outputWritable, files, fileIdx,
                 processedDocuments, keepSeparate, console, promise>>

NextUnified == CallGenerateOutput

SpecUnified == InitUnified /\ [][NextUnified]_vars

\* The occurrences of a term in document-then-line order, as <<d, i>> pairs
Occurrences(documents, term) ==
  UNION { { <<d, i>> : i \in {k \in DOMAIN documents[d].abbreviations :
                                documents[d].abbreviations[k].term = term} } :
          d \in DOMAIN documents }

FirstOccurrence(documents, term) ==
  CHOOSE o \in Occurrences(documents, term) :
    \A q \in Occurrences(documents, term) :
      o[1] < q[1] \/ (o[1] = q[1] /\ o[2] <= q[2])

\* The names of the documents that contain the term, in document order
RECURSIVE ContributingNames(_, _)
ContributingNames(documents, term) ==
  IF documents = <<>> THEN <<>>
  ELSE (IF \E i \in DOMAIN Head(documents).abbreviations :
             Head(documents).abbreviations[i].term = term
          THEN <<Head(documents).filename>> ELSE <<>>)
       \o ContributingNames(Tail(documents), term)

\* C10: the unified list holds each distinct term once, with the definition
\* of its first occurrence in document-then-line order and the names of the
\* contributing documents, each once, in first-encounter order, and it is
\* sorted by term.
C10_UnifiedMerge ==
  (pc = "returned" /\ ~keepSeparate) =>
    /\ \A i, j \in DOMAIN allAbbreviations :
         i < j => localeCompare(allAbbreviations[i].term, allAbbreviations[j].term) < 0
    /\ \A d \in DOMAIN processedDocuments : \A k \in DOMAIN processedDocuments[d].abbreviations :
         \E i \in DOMAIN allAbbreviations :
           allAbbreviations[i].term = processedDocuments[d].abbreviations[k].term
    /\ \A i \in DOMAIN allAbbreviations :
         LET term == allAbbreviations[i].term
         IN  /\ Occurrences(processedDocuments, term) # {}
             /\ LET o == FirstOccurrence(processedDocuments, term)
                IN  allAbbreviations[i].definition
                      = processedDocuments[o[1]].abbreviations[o[2]].definition
             /\ allAbbreviations[i].sources = ContributingNames(processedDocuments, term)

\* Two documents define the same term differently, and the sort reorders
C10_Witness ==
  /\ pc = "returned"
  /\ ~keepSeparate
  /\ Len(processedDocuments) = 2
  /\ Len(allAbbreviations) = 2
  /\ allAbbreviations[1].term # processedDocuments[1].abbreviations[1].term
  /\ \E i \in DOMAIN allAbbreviations :
       /\ Len(allAbbreviations[i].sources) = 2
       /\ \E k \in DOMAIN processedDocuments[2].abbreviations :
            /\ processedDocuments[2].abbreviations[k].term = allAbbreviations[i].term
            /\ processedDocuments[2].abbreviations[k].definition # allAbbreviations[i].definition

-----------------------------------------------------------------------------
(* The program: module top level and extractAbbreviationsFromPDFs *)

\* What reading a directory entry gives: readFileSync throws, pdf() rejects,
\* or the text of the document
Unreadable == [status |-> "readFileSync throws", text |-> <<>>]

Corrupt == [status |-> "pdf rejects", text |-> <<>>]

SampleTexts ==
  { <<"a","c","r","o","n","y","m","s","\n","B",":","x","\n","A",":","x">>,
    <<"A","b","b","r","e","v","i","a","t","i","o","n","s","\n","A",":","y">>,
    <<"a","c","r","o","n","y","m","s">>,
    <<"x">> }

FileContents ==
  {Unreadable, Corrupt} \cup {[status |-> "text", text |-> t] : t \in SampleTexts}

Extensions ==
  { PdfExt, <<".", "P", "D", "F">>, <<".", "t", "x", "t">> }

Absent == [ext |-> <<>>, content |-> Unreadable]

\* The entries of the directory, in listing order
RECURSIVE Listing(_, _)
Listing(slots, i) ==
  IF i > Len(slots) THEN <<>>
  ELSE (IF slots[i] = Absent THEN <<>>
        ELSE <<[name |-> FileName(i, slots[i].ext), content |-> slots[i].content]>>)
       \o Listing(slots, i + 1)

Init ==
  /\ text = <<>>
  /\ startIndex = -1
  /\ endIndex = 0
  /\ headerFound = <<>>
  /\ sectionContent = <<>>
  /\ abbreviations = <<>>
  /\ pc = "startup"
  /\ dirExists \in BOOLEAN
  /\ \E slots \in [1..MaxFiles -> {Absent} \cup [ext : Extensions, content : FileContents]] :
       dirEntries = IF dirExists THEN Listing(slots, 1) ELSE <<>>
  /\ outputWritable \in BOOLEAN
  /\ outputFile = <<>>
  /\ files = <<>>
  /\ fileIdx = 1
  /\ processedDocuments = <<>>
  /\ keepSeparate = TRUE
  /\ allAbbreviations = <<>>
  /\ console = <<>>
  /\ fsCalls = <<>>
  /\ promise = "none"

Log(msg) == [msg |-> msg]

LogFile(msg, name) == [msg |-> msg, file |-> name]

\* Top level: the input directory is missing, so it is created and the
\* notice is printed; control then reaches the call of the extraction
CreateInputDirectory ==
  /\ pc = "startup"
  /\ ~dirExists
  /\ dirExists' = TRUE
  /\ fsCalls' = fsCalls \o <<"existsSync", "mkdirSync">>
  /\ console' = console \o <<Log("Created directory"),
                             Log("Please place your PDF files in this directory")>>
  /\ pc' = "run"
  /\ UNCHANGED <<fnVars, dirEntries, outputWritable, outputFile, files, fileIdx,
                 processedDocuments, keepSeparate, allAbbreviations, promise>>

\* Top level: the input directory is there
InputDirectoryPresent ==
  /\ pc = "startup"
  /\ dirExists
  /\ fsCalls' = Append(fsCalls, "existsSync")
  /\ pc' = "run"
  /\ UNCHANGED <<fnVars, dirExists, dirEntries, outputWritable, outputFile, files,
                 fileIdx, processedDocuments, keepSeparate, allAbbreviations, console,
                 promise>>

\* file.toLowerCase().endsWith(".pdf")
IsPdf(entry) == toLowerCase(entry.name.ext) = PdfExt

\* extractAbbreviationsFromPDFs, up to the batch loop
ListFiles ==
  /\ pc = "run"
  /\ fsCalls' = Append(fsCalls, "readdirSync")
  /\ files' = SelectSeq(dirEntries, IsPdf)
  /\ fileIdx' = 1
  /\ IF files' = <<>>
       THEN /\ console' = console \o <<Log("Starting abbreviation extraction process..."),
                                       Log("No PDF files found")>>
            /\ promise' = "resolved"
            /\ pc' = "done"
       ELSE /\ console' = console \o <<Log("Starting abbreviation extraction process..."),
                                       Log("Found PDF files")>>
            /\ promise' = "pending"
            /\ pc' = "loop"
  /\ UNCHANGED <<fnVars, dirExists, dirEntries, outputWritable, outputFile,
                 processedDocuments, keepSeparate, allAbbreviations>>

\* A plausible slip: no try/catch in the loop body, so the error reaches the
\* catch around the whole function and the batch ends
FileErrorEndsBatch(file) ==
  /\ console' = console \o <<LogFile("Processing", file.name),
                             Log("Error in extraction process")>>
  /\ promise' = "resolved"
  /\ pc' = "done"
  /\ UNCHANGED <<fileIdx, processedDocuments>>

\* The catch of the loop body: the error is reported and the loop goes on
FileErrorCaught(file) ==
  /\ console' = console \o <<LogFile("Processing", file.name),
                             LogFile("Error processing", file.name)>>
  /\ fileIdx' = fileIdx + 1
  /\ UNCHANGED <<processedDocuments, promise, pc>>

\* One iteration of the batch loop
ProcessFile ==
  /\ pc = "loop"
  /\ fileIdx <= Len(files)
  /\ LET file == files[fileIdx]
     IN  /\ fsCalls' = Append(fsCalls, "readFileSync")
         /\ IF file.content \in {Unreadable, Corrupt}
              THEN FileErrorCaught(file)
              ELSE LET abbrs == extractAbbreviationSection(file.content.text)
                   IN  /\ IF Len(abbrs) > 0
                            THEN /\ processedDocuments' =
                                      Append(processedDocuments,
                                             [filename |-> file.name, abbreviations |-> abbrs])
                                 /\ console' = console \o <<LogFile("Processing", file.name),
                                                            LogFile("Extracted abbreviations from", file.name)>>
                            ELSE /\ processedDocuments' = processedDocuments
                                 /\ console' = console \o <<LogFile("Processing", file.name),
                                                            LogFile("No abbreviation section found in", file.name)>>
                       /\ fileIdx' = fileIdx + 1
                       /\ UNCHANGED <<promise, pc>>
  /\ UNCHANGED <<fnVars, dirExists, dirEntries, outputWritable, outputFile, files,
                 keepSeparate, allAbbreviations>>

\* After the loop: generateOutput, then the success message, or the catch
\* around the whole function when writeFileSync throws
GenerateOutput ==
  /\ pc = "loop"
  /\ fileIdx > Len(files)
  /\ GenerateOutputEffect
  /\ IF outputWritable
       THEN console' = Append(console, Log("Extraction complete. Results saved"))
       ELSE console' = Append(console, Log("Error in extraction process"))
  /\ promise' = "resolved"
  /\ pc' = "done"
  /\ UNCHANGED <<fnVars, dirExists, dirEntries, outputWritable, files, fileIdx,
                 processedDocuments, keepSeparate>>

Next ==
  \/ CreateInputDirectory
  \/ InputDirectoryPresent
  \/ ListFiles
  \/ ProcessFile
  \/ GenerateOutput

Spec == Init /\ [][Next]_vars

-----------------------------------------------------------------------------
(* Claims about the program *)

Logged(msg) == \E i \in DOMAIN console : console[i].msg = msg

\* The file names logged as being processed, in order
RECURSIVE ProcessingLog(_)
ProcessingLog(c) ==
  IF c = <<>> THEN <<>>
  ELSE (IF Head(c).msg = "Processing" THEN <<Head(c).file>> ELSE <<>>)
       \o ProcessingLog(Tail(c))

\* The documents that the files yield: those that can be read and parsed
\* and have at least one abbreviation
RECURSIVE ExpectedDocuments(_)
ExpectedDocuments(fs) ==
  IF fs = <<>> THEN <<>>
  ELSE (IF Head(fs).content \notin {Unreadable, Corrupt}
           /\ extractAbbreviationSection(Head(fs).content.text) # <<>>
          THEN <<[filename |-> Head(fs).name,
                  abbreviations |-> extractAbbreviationSection(Head(fs).content.text)]>>
          ELSE <<>>)
       \o ExpectedDocuments(Tail(fs))

\* C7: a file whose reading or text extraction fails contributes no
\* document, every remaining file is still processed, and the documents
\* collected are in directory-listing order, each with an abbreviation.
C7_FailureIsolation ==
  (pc = "done" /\ files # <<>>) =>
    /\ ProcessingLog(console) = [i \in DOMAIN files |-> files[i].name]
    /\ processedDocuments = ExpectedDocuments(files)
    /\ \A d \in DOMAIN processedDocuments : Len(processedDocuments[d].abbreviations) >= 1
    /\ \A i \in DOMAIN files :
         files[i].content \in {Unreadable, Corrupt} =>
           \A d \in DOMAIN processedDocuments : processedDocuments[d].filename # files[i].name

\* A file fails and a file after it is collected
C7_Witness ==
  /\ pc = "done"
  /\ Len(files) >= 2
  /\ files[1].content \in {Unreadable, Corrupt}
  /\ Len(processedDocuments) >= 1
  /\ processedDocuments[1].filename = files[2].name

\* C8: the output file is written only after every document has been
\* processed, and a write that fails rejects the promise returned by
\* extractAbbreviationsFromPDFs, with no success message.
C8_WriteFailurePropagates ==
  /\ ("writeFileSync" \in Range(fsCalls)) => fileIdx > Len(files)
  /\ (pc = "done" /\ "writeFileSync" \in Range(fsCalls) /\ ~outputWritable) =>
       /\ promise = "rejected"
       /\ ~Logged("Extraction complete. Results saved")

\* C9: when the input directory did not exist at start-up the program
\* creates it, prints the notice and exits: no directory listing, no
\* document processing and no output write in that run.
C9_ExitAfterCreate ==
  "mkdirSync" \in Range(fsCalls) =>
    /\ Logged("Please place your PDF files in this directory")
    /\ "readdirSync" \notin Range(fsCalls)
    /\ "readFileSync" \notin Range(fsCalls)
    /\ "writeFileSync" \notin Range(fsCalls)
    /\ ~Logged("Starting abbreviation extraction process...")

====
